---- MODULE Spec2Model ----
(***************************************************************************)
(* Model of gir's special-function analysis                                *)
(* (src/analysis/special_functions.rs): the operation vocabulary           *)
(* (Type::from_str), the stringify detector (is_stringify), the            *)
(* classification pass (extract), the visibility promoter (unhide) and the *)
(* import analyzer (analyze_imports); and of the choice of the versions    *)
(* file (make_single_version_file of src/config/config.rs).                *)
(*                                                                         *)
(* Option<T> values are sequences of length 0 (None) or 1 (Some).          *)
(* BTreeMap values are functions whose DOMAIN is the key set.              *)
(* Version values are only copied by this code, never compared, so they    *)
(* are opaque tokens.                                                      *)
(***************************************************************************)
EXTENDS Integers, Sequences, FiniteSets, Bags, TLC

VARIABLES
    functions,    \* the caller-owned Vec<FuncInfo> of one type
    specials,     \* the Infos registry last returned by extract
    imports,      \* the add_with_version calls received by Imports (a bag)
    parent_type,  \* variant tag of the LibType the functions belong to
    obj,          \* the GObject policy: [trust_return_value_nullability]
    analyses,     \* how many times analyze_imports ran on imports
    version_file, \* one call of make_single_version_file: its arguments and result
    orig,         \* history: the function list as first handed over
    pre,          \* history: functions/specials/imports before the last call
    last          \* history: the last call, [op, type_]

vars == <<functions, specials, imports, parent_type, obj, analyses, version_file,
          orig, pre, last>>

\* Longest function list of the full analysis (extract, unhide, analyze_imports).
MaxLen == 2

\* Longest function list of the destroy/clone interaction runs.
MaxVocLen == 3

\* Longest function list of the vocabulary-name runs.
MaxNameLen == 2

\* Longest function list of the stringify runs.
MaxStrLen == 2

\* How many times analyze_imports is run on one Imports collection.
MaxAnalyses == 1

\* Longest configured path handed to make_single_version_file, in characters.
MaxPathLen == 5

----------------------------------------------------------------------------
(* Data model *)

\* enum Type, in declaration order (the derived Ord).
Types == {"Compare", "Copy", "Equal", "Free", "Ref", "Display", "Unref", "Hash"}

\* analysis::functions::Visibility as used here.
Visibilities == {"Public", "Comment", "Private", "Hidden"}

\* library::Transfer.
Transfers == {"None", "Container", "Full"}

\* Tags of library::Type that the code distinguishes, and one standing for
\* every other variant.
ParentTypes == {"Enumeration", "Bitfield", "Record"}

None == <<>>

Some(x) == <<x>>

\* BTreeMap::new()
EmptyMap == [k \in {} |-> {}]

\* BTreeMap::insert: adds the key or overwrites its value.
MapInsert(m, k, v) == [x \in (DOMAIN m) \cup {k} |-> IF x = k THEN v ELSE m[x]]

\* Infos::default()
InfosDefault == [traits |-> EmptyMap, functions |-> EmptyMap]

\* Infos::has_trait
has_trait(infos, type_) == type_ \in DOMAIN infos.traits

TraitInfo(func) == [glib_name |-> func.glib_name, version |-> func.version]

FunctionInfo(func) == [type_ |-> "StaticStringify", version |-> func.version]

----------------------------------------------------------------------------
(* Type::from_str: Ok(t) is Some(t), Err(_) is None. *)
from_str(s) ==
    CASE s = "compare" -> Some("Compare")
      [] s = "copy" -> Some("Copy")
      [] s = "equal" -> Some("Equal")
      [] s \in {"free", "destroy"} -> Some("Free")
      [] s = "is_equal" -> Some("Equal")
      [] s \in {"ref", "ref_"} -> Some("Ref")
      [] s = "unref" -> Some("Unref")
      [] s = "hash" -> Some("Hash")
      [] OTHER -> None

\* visibility with Equal moved to the Hidden row.
visibility_equal_hidden(t) ==
    CASE t \in {"Copy", "Free", "Ref", "Unref", "Equal"} -> "Hidden"
      [] t \in {"Hash", "Compare"} -> "Private"
      [] t = "Display" -> "Public"

(* fn visibility(t: Type) -> Visibility *)
visibility(t) ==
    CASE t \in {"Copy", "Free", "Ref", "Unref"} -> "Hidden"
      [] t \in {"Hash", "Compare", "Equal"} -> "Private"
      [] t = "Display" -> "Public"

\* A function with exactly one parameter, the instance parameter, and a
\* string-typed return.
StringShaped(func) ==
    /\ Len(func.c_parameters) = 1
    /\ func.c_parameters[1].instance_parameter
    /\ func.ret # None
    /\ func.ret[1].typ = "utf8"

\* is_stringify assuming non-nullability for every to_string.
is_stringify_always_override(func, parent, gobj) ==
    IF ~StringShaped(func)
    THEN [result |-> FALSE, func |-> func]
    ELSE IF func.name = "to_string"
    THEN [result |-> TRUE,
          func |-> [func EXCEPT !.name = "to_str", !.ret[1].nullable = FALSE]]
    ELSE [result |-> ~func.ret[1].nullable, func |-> func]

\* is_stringify whose verdict uses the nullable flag read before the override.
is_stringify_stale_nullable(func, parent, gobj) ==
    IF ~StringShaped(func)
    THEN [result |-> FALSE, func |-> func]
    ELSE IF func.name = "to_string"
    THEN LET renamed == [func EXCEPT !.name = "to_str"]
             f2 == IF ~gobj.trust_return_value_nullability
                      /\ parent \notin {"Enumeration", "Bitfield"}
                   THEN [renamed EXCEPT !.ret[1].nullable = FALSE]
                   ELSE renamed
         IN [result |-> ~func.ret[1].nullable, func |-> f2]
    ELSE [result |-> ~func.ret[1].nullable, func |-> func]

\* is_stringify with || for && in the override condition.
is_stringify_either_override(func, parent, gobj) ==
    IF ~StringShaped(func)
    THEN [result |-> FALSE, func |-> func]
    ELSE IF func.name = "to_string"
    THEN LET renamed == [func EXCEPT !.name = "to_str"]
             f2 == IF ~gobj.trust_return_value_nullability
                      \/ parent \notin {"Enumeration", "Bitfield"}
                   THEN [renamed EXCEPT !.ret[1].nullable = FALSE]
                   ELSE renamed
         IN [result |-> ~f2.ret[1].nullable, func |-> f2]
    ELSE [result |-> ~func.ret[1].nullable, func |-> func]

(* is_stringify: returns the bool and the (possibly mutated) function. *)
is_stringify(func, parent, gobj) ==
    IF Len(func.c_parameters) # 1
    THEN [result |-> FALSE, func |-> func]
    ELSE IF ~func.c_parameters[1].instance_parameter
    THEN [result |-> FALSE, func |-> func]
    ELSE IF func.ret = None
    THEN [result |-> FALSE, func |-> func]
    ELSE IF func.ret[1].typ # "utf8"
    THEN [result |-> FALSE, func |-> func]
    ELSE IF func.name = "to_string"
    THEN LET renamed == [func EXCEPT !.name = "to_str"]
             f2 == IF ~gobj.trust_return_value_nullability
                      /\ parent \notin {"Enumeration", "Bitfield"}
                   THEN [renamed EXCEPT !.ret[1].nullable = FALSE]
                   ELSE renamed
         IN [result |-> ~f2.ret[1].nullable, func |-> f2]
    ELSE [result |-> ~func.ret[1].nullable, func |-> func]

\* update_func without the Visibility::Comment guard.
update_func_unguarded(func, type_) ==
    [result |-> TRUE, func |-> [func EXCEPT !.visibility = visibility(type_)]]

\* update_func refusing Suppressed functions.
update_func_skip_comment(func, type_) ==
    IF func.visibility # "Comment"
    THEN [result |-> TRUE, func |-> [func EXCEPT !.visibility = visibility(type_)]]
    ELSE [result |-> FALSE, func |-> func]

(* update_func: returns the bool and the (possibly mutated) function. *)
update_func(func, type_) ==
    [result |-> TRUE,
     func |-> IF func.visibility # "Comment"
              THEN [func EXCEPT !.visibility = visibility(type_)]
              ELSE func]

----------------------------------------------------------------------------
(* extract *)

\* The locals of extract: the list being mutated, the registry being built,
\* the two found flags and the deferred destroy candidate (glib_name, pos).
\* Positions are 1-based here, 0-based in the source.
\* reads is a history of the loop: the value of func.name each lookup read,
\* the matches! of line 165 for an accepted function, the parse of line 178
\* for a rejected one.
ExtractLocals(fns) ==
    [functions |-> fns, specials |-> InfosDefault,
     has_copy |-> FALSE, has_free |-> FALSE, destroy |-> None,
     reads |-> <<>>]

\* extract_stringify without the need_generate test.
extract_stringify_any_status(st, func, parent) ==
    LET returns_static_ref ==
            /\ func.ret # None
            /\ func.ret[1].transfer = "None"
            /\ parent \in {"Enumeration", "Bitfield"}
        fns1 == IF returns_static_ref
                THEN MapInsert(st.specials.functions, func.glib_name, FunctionInfo(func))
                ELSE st.specials.functions
        traits1 == IF func.name \in {"to_string", "to_str", "name", "get_name"}
                   THEN MapInsert(st.specials.traits, "Display", TraitInfo(func))
                   ELSE st.specials.traits
    IN [st EXCEPT !.specials = [traits |-> traits1, functions |-> fns1]]

\* extract_stringify keeping the first Display candidate.
extract_stringify_first_display(st, func, parent) ==
    LET returns_static_ref ==
            /\ func.ret # None
            /\ func.ret[1].transfer = "None"
            /\ parent \in {"Enumeration", "Bitfield"}
            /\ func.need_generate
        fns1 == IF returns_static_ref
                THEN MapInsert(st.specials.functions, func.glib_name, FunctionInfo(func))
                ELSE st.specials.functions
        traits1 == IF func.name \in {"to_string", "to_str", "name", "get_name"}
                      /\ "Display" \notin DOMAIN st.specials.traits
                   THEN MapInsert(st.specials.traits, "Display", TraitInfo(func))
                   ELSE st.specials.traits
    IN [st EXCEPT !.specials = [traits |-> traits1, functions |-> fns1]]

\* The stringify branch of the loop body (lines 139-177).
extract_stringify(st, func, parent) ==
    LET return_transfer_none ==
            IF func.ret = None THEN FALSE ELSE func.ret[1].transfer = "None"
        returns_static_ref ==
            /\ return_transfer_none
            /\ parent \in {"Enumeration", "Bitfield"}
            /\ func.need_generate
        fns1 == IF returns_static_ref
                THEN MapInsert(st.specials.functions, func.glib_name, FunctionInfo(func))
                ELSE st.specials.functions
        traits1 == IF func.name \in {"to_string", "to_str", "name", "get_name"}
                   THEN MapInsert(st.specials.traits, "Display", TraitInfo(func))
                   ELSE st.specials.traits
    IN [st EXCEPT !.specials = [traits |-> traits1, functions |-> fns1]]

\* extract_vocabulary keeping the first "destroy" candidate, not the last.
extract_vocabulary_first_destroy(st, func, pos, type_) ==
    IF func.name = "destroy"
    THEN IF st.destroy = None
         THEN [st EXCEPT !.destroy = Some([glib_name |-> func.glib_name, pos |-> pos])]
         ELSE st
    ELSE LET u == update_func(func, type_)
         IN [st EXCEPT
               !.functions[pos] = u.func,
               !.has_copy = IF func.name = "copy" THEN TRUE ELSE @,
               !.has_free = IF func.name = "free" THEN TRUE ELSE @,
               !.specials.traits = MapInsert(@, type_, TraitInfo(u.func))]

\* extract_vocabulary keeping the first entry of a kind (entry().or_insert).
extract_vocabulary_first_wins(st, func, pos, type_) ==
    IF func.name = "destroy"
    THEN [st EXCEPT !.destroy = Some([glib_name |-> func.glib_name, pos |-> pos])]
    ELSE LET u == update_func(func, type_)
         IN [st EXCEPT
               !.functions[pos] = u.func,
               !.has_copy = IF func.name = "copy" THEN TRUE ELSE @,
               !.has_free = IF func.name = "free" THEN TRUE ELSE @,
               !.specials.traits = IF type_ \in DOMAIN @ THEN @
                                   ELSE MapInsert(@, type_, TraitInfo(u.func))]

\* The vocabulary branch of the loop body (lines 178-199), for a function
\* whose name parsed to type_.
extract_vocabulary(st, func, pos, type_) ==
    IF func.name = "destroy"
    THEN [st EXCEPT !.destroy = Some([glib_name |-> func.glib_name, pos |-> pos])]
    ELSE LET u == update_func(func, type_)
             st1 == [st EXCEPT !.functions[pos] = u.func]
         IN IF ~u.result
            THEN st1
            ELSE [st1 EXCEPT
                    !.has_copy = IF func.name = "copy" THEN TRUE ELSE @,
                    !.has_free = IF func.name # "copy" /\ func.name = "free"
                                 THEN TRUE ELSE @,
                    !.specials.traits = MapInsert(@, type_, TraitInfo(u.func))]

\* extract_step with the Display match outside the is_stringify test.
extract_step_display_unchecked(st, pos, parent, gobj) ==
    LET s == is_stringify(st.functions[pos], parent, gobj)
        func == s.func
        st1 == [st EXCEPT !.functions[pos] = func]
        st2 == IF func.name \in {"to_string", "to_str", "name", "get_name"}
               THEN [st1 EXCEPT !.specials.traits =
                                    MapInsert(@, "Display", TraitInfo(func))]
               ELSE st1
    IN IF s.result
       THEN extract_stringify(st1, func, parent)
       ELSE IF from_str(func.name) # None
       THEN extract_vocabulary(st2, func, pos, from_str(func.name)[1])
       ELSE st2

\* extract_step that tries the vocabulary parse before the detector's verdict.
extract_step_vocabulary_first(st, pos, parent, gobj) ==
    LET s == is_stringify(st.functions[pos], parent, gobj)
        func == s.func
        st1 == [st EXCEPT
                  !.functions[pos] = func,
                  !.reads = Append(@, [pos |-> pos,
                                       lookup |-> IF s.result THEN "matches" ELSE "parse",
                                       name |-> func.name])]
    IN IF from_str(func.name) # None
       THEN extract_vocabulary(st1, func, pos, from_str(func.name)[1])
       ELSE IF s.result
       THEN extract_stringify(st1, func, parent)
       ELSE st1

\* extract_step whose lookups use the name taken before is_stringify ran.
extract_step_stale_name(st, pos, parent, gobj) ==
    LET old == st.functions[pos]
        s == is_stringify(old, parent, gobj)
        func == s.func
        seen == [func EXCEPT !.name = old.name]
        st1 == [st EXCEPT
                  !.functions[pos] = func,
                  !.reads = Append(@, [pos |-> pos,
                                       lookup |-> IF s.result THEN "matches" ELSE "parse",
                                       name |-> seen.name])]
    IN IF s.result
       THEN extract_stringify(st1, seen, parent)
       ELSE IF from_str(seen.name) # None
       THEN extract_vocabulary(st1, seen, pos, from_str(seen.name)[1])
       ELSE st1

\* One iteration of the loop over functions.iter_mut().enumerate().
extract_step(st, pos, parent, gobj) ==
    LET s == is_stringify(st.functions[pos], parent, gobj)
        func == s.func
        st1 == [st EXCEPT
                  !.functions[pos] = func,
                  !.reads = Append(@, [pos |-> pos,
                                       lookup |-> IF s.result THEN "matches" ELSE "parse",
                                       name |-> func.name])]
    IN IF s.result
       THEN extract_stringify(st1, func, parent)
       ELSE IF from_str(func.name) # None
       THEN extract_vocabulary(st1, func, pos, from_str(func.name)[1])
       ELSE st1

\* The loop of lines 137-200, from position pos to the end of the list.
RECURSIVE extract_loop(_, _, _, _)
extract_loop(st, pos, parent, gobj) ==
    IF pos > Len(st.functions)
    THEN st
    ELSE extract_loop(extract_step(st, pos, parent, gobj), pos + 1, parent, gobj)

\* The pass over the whole list, with the locals it leaves behind.
extract_pass(fns, parent, gobj) == extract_loop(ExtractLocals(fns), 1, parent, gobj)

\* extract_fallback that does not look at has_free.
extract_fallback_ignores_free(st) ==
    IF st.has_copy /\ st.destroy # None
    THEN LET d == st.destroy[1]
             u == update_func(st.functions[d.pos], "Free")
         IN [st EXCEPT
               !.functions[d.pos] = u.func,
               !.specials.traits =
                   MapInsert(@, "Free", [glib_name |-> d.glib_name,
                                         version |-> u.func.version])]
    ELSE st

\* The deferred destroy resolution of lines 202-215.
extract_fallback(st) ==
    IF st.has_copy /\ ~st.has_free /\ st.destroy # None
    THEN LET d == st.destroy[1]
             ty_ == from_str("destroy")[1]
             u == update_func(st.functions[d.pos], ty_)
         IN [st EXCEPT
               !.functions[d.pos] = u.func,
               !.specials.traits =
                   MapInsert(@, ty_, [glib_name |-> d.glib_name,
                                      version |-> u.func.version])]
    ELSE st

\* pub fn extract: the mutated list and the returned Infos.
extract(fns, parent, gobj) ==
    LET st == extract_fallback(extract_pass(fns, parent, gobj))
    IN [functions |-> st.functions, specials |-> st.specials]

----------------------------------------------------------------------------
(* unhide *)

\* find_unhide returning the last match (rfind).
find_unhide_last(fns, glib_name) ==
    LET hits == {i \in 1..Len(fns) :
                    fns[i].glib_name = glib_name /\ fns[i].visibility # "Comment"}
    IN IF hits = {} THEN None
       ELSE Some(CHOOSE i \in hits : \A j \in hits : i >= j)

\* Iterator::find: the first position satisfying the closure, if any.
find_unhide(fns, glib_name) ==
    LET hits == {i \in 1..Len(fns) :
                    fns[i].glib_name = glib_name /\ fns[i].visibility # "Comment"}
    IN IF hits = {} THEN None
       ELSE Some(CHOOSE i \in hits : \A j \in hits : i <= j)

\* pub fn unhide: the mutated list.
unhide(fns, infos, type_) ==
    IF type_ \in DOMAIN infos.traits
    THEN LET found == find_unhide(fns, infos.traits[type_].glib_name)
         IN IF found # None
            THEN [fns EXCEPT ![found[1]].visibility = "Public"]
            ELSE fns
    ELSE fns

----------------------------------------------------------------------------
(* analyze_imports *)

\* trait_import adding std::fmt without its version.
trait_import_ungated_fmt(type_, info) ==
    CASE type_ = "Compare" -> Some([name |-> "std::cmp", version |-> info.version])
      [] type_ = "Display" -> Some([name |-> "std::fmt", version |-> None])
      [] type_ = "Hash" -> Some([name |-> "std::hash", version |-> info.version])
      [] OTHER -> None

\* The add_with_version call analyze_imports makes for one traits entry.
trait_import(type_, info) ==
    CASE type_ = "Compare" -> Some([name |-> "std::cmp", version |-> info.version])
      [] type_ = "Display" -> Some([name |-> "std::fmt", version |-> info.version])
      [] type_ = "Hash" -> Some([name |-> "std::hash", version |-> info.version])
      [] OTHER -> None

\* The add_with_version call analyze_imports makes for one functions entry.
function_import(info) ==
    CASE info.type_ = "StaticStringify" ->
            Some([name |-> "std::ffi::CStr", version |-> info.version])

\* Sum of the bags b[x] for x in S.
RECURSIVE BagSum(_, _)
BagSum(S, b) ==
    IF S = {} THEN EmptyBag
    ELSE LET x == CHOOSE y \in S : TRUE
         IN b[x] (+) BagSum(S \ {x}, b)

OptionBag(o) == IF o = None THEN EmptyBag ELSE SetToBag({o[1]})

\* pub fn analyze_imports: imports after the calls of both loops.
analyze_imports(infos, imps) ==
    LET t == [k \in DOMAIN infos.traits |->
                 OptionBag(trait_import(k, infos.traits[k]))]
        f == [g \in DOMAIN infos.functions |->
                 OptionBag(function_import(infos.functions[g]))]
    IN imps (+) BagSum(DOMAIN infos.traits, t) (+) BagSum(DOMAIN infos.functions, f)

----------------------------------------------------------------------------
(* make_single_version_file (src/config/config.rs) *)

\* A path is the sequence of its characters; "/" is the separator (Unix).
\* A component is the sequence of its characters too: RootDir is "/", CurDir
\* is ".", ParentDir is "..", and a Normal component is a segment that is none
\* of these and holds no separator.
RootDir == <<"/">>

CurDir == <<".">>

ParentDir == <<".", ".">>

src == <<"s", "r", "c">>

auto == <<"a", "u", "t", "o">>

versions_txt == <<"v", "e", "r", "s", "i", "o", "n", "s", ".", "t", "x", "t">>

\* Path::has_root, which is Path::is_absolute on Unix.
is_absolute(path) == Len(path) > 0 /\ path[1] = "/"

\* Path::join: PathBuf::push on a copy.  An absolute path replaces the base;
\* otherwise a separator is added unless the base is empty or ends with one.
join(base, path) ==
    IF is_absolute(path)
    THEN path
    ELSE IF Len(base) > 0 /\ base[Len(base)] # "/"
    THEN base \o <<"/">> \o path
    ELSE base \o path

\* The segments between the separators of a path, empty ones included.
RECURSIVE Segments(_)
Segments(path) ==
    LET seps == {k \in 1..Len(path) : path[k] = "/"}
    IN IF seps = {}
       THEN <<path>>
       ELSE LET k == CHOOSE m \in seps : \A n \in seps : m <= n
            IN <<SubSeq(path, 1, k - 1)>> \o Segments(SubSeq(path, k + 1, Len(path)))

\* The components of segments k.. of a path: an empty segment is skipped, and
\* so is a "." segment unless it starts a path without root.
RECURSIVE ComponentsFrom(_, _, _)
ComponentsFrom(segs, k, root) ==
    IF k > Len(segs)
    THEN <<>>
    ELSE LET s == segs[k]
             here == IF s = <<>> THEN <<>>
                     ELSE IF s = CurDir /\ (k > 1 \/ root) THEN <<>>
                     ELSE <<s>>
         IN here \o ComponentsFrom(segs, k + 1, root)

\* Path::components, collected.
components(path) ==
    (IF is_absolute(path) THEN <<RootDir>> ELSE <<>>)
        \o ComponentsFrom(Segments(path), 1, is_absolute(path))

\* Path::file_name: the last component if it is a Normal one.
file_name(path) ==
    LET c == components(path)
    IN IF c = <<>> \/ c[Len(c)] \in {RootDir, CurDir, ParentDir}
       THEN None
       ELSE Some(c[Len(c)])

\* std's rsplit_file_at_dot: (before, after) around the last dot of a file
\* name; a name without a dot is all "after", a name whose only dot is its
\* first character is all "before".
rsplit_file_at_dot(file) ==
    LET dots == {k \in 1..Len(file) : file[k] = "."}
    IN IF file = ParentDir
       THEN [before |-> Some(file), after |-> None]
       ELSE IF dots = {}
       THEN [before |-> None, after |-> Some(file)]
       ELSE LET d == CHOOSE m \in dots : \A n \in dots : n <= m
            IN IF d = 1
               THEN [before |-> Some(file), after |-> None]
               ELSE [before |-> Some(SubSeq(file, 1, d - 1)),
                     after |-> Some(SubSeq(file, d + 1, Len(file)))]

\* Path::extension: file_name().map(rsplit_file_at_dot)
\*                             .and_then(|(before, after)| before.and(after))
extension(path) ==
    IF file_name(path) = None
    THEN None
    ELSE LET r == rsplit_file_at_dot(file_name(path)[1])
         IN IF r.before = None THEN None ELSE r.after

make_single_version_file(configured, target_path) ==
    LET file_dir == IF configured = None \/ configured = Some(<<>>)
                    THEN join(join(target_path, src), auto)
                    ELSE join(target_path, configured[1])
    IN IF extension(file_dir) # None
       THEN file_dir
       ELSE join(file_dir, versions_txt)

----------------------------------------------------------------------------
(* Inputs *)

\* FuncInfo, restricted to the fields this file reads or writes.
Func(name, glib_name, c_parameters, ret, vis, version, need_generate) ==
    [name |-> name, glib_name |-> glib_name, c_parameters |-> c_parameters,
     ret |-> ret, visibility |-> vis, version |-> version,
     need_generate |-> need_generate]

Instance == [instance_parameter |-> TRUE]

Plain == [instance_parameter |-> FALSE]

Ret(typ, nullable, transfer) ==
    Some([typ |-> typ, nullable |-> nullable, transfer |-> transfer])

\* A function that takes the instance and returns a non-nullable string.
StrRet == Ret("utf8", FALSE, "None")

\* C symbols: one per position of a list, so that no two functions of a list
\* share their glib_name.
GlibNames == <<"g_t_a", "g_t_b", "g_t_c", "g_t_d", "g_t_e">>

V1 == Some("v2_40")

V2 == Some("v2_60")

\* Sequences over U of length 0..n.
SeqsUpTo(U, n) == UNION {[1..k -> U] : k \in 0..n}

\* The list fs with the i-th function given the i-th C symbol.
Symbols(fs) == [i \in 1..Len(fs) |-> [fs[i] EXCEPT !.glib_name = GlibNames[i]]]

Policies == [trust_return_value_nullability : BOOLEAN]

\* The characters configured paths are made of.
PathChars == {"a", ".", "/"}

\* The values of the single_version_file option: absent, or a string.
Configured == {None} \cup {Some(p) : p \in SeqsUpTo(PathChars, MaxPathLen)}

\* Target directories: "/t", "/t.d" and ".".
Targets == {<<"/", "t">>, <<"/", "t", ".", "d">>, <<".">>}

\* Functions of the destroy/clone interaction: ordinary and Suppressed "copy",
\* "free" and "destroy", and stringify-shaped functions with these names.
VocFuncs ==
    {Func(n, "", <<Instance>>, None, "Public", V1, TRUE) : n \in {"copy", "free", "destroy"}}
    \cup {Func(n, "", <<Instance>>, Ret("gpointer", FALSE, "Full"), "Comment", None, TRUE) :
            n \in {"copy", "free", "destroy"}}
    \cup {Func(n, "", <<Instance, Plain>>, StrRet, "Private", V2, FALSE) :
            n \in {"copy", "destroy"}}
    \cup {Func(n, "", <<Instance>>, StrRet, "Public", V2, TRUE) :
            n \in {"copy", "free", "destroy"}}

\* Functions of the vocabulary runs: every name of the vocabulary, case
\* variants and other names, each ordinary, Suppressed or stringify-shaped.
NameFuncs ==
    {Func(n, "", <<Instance>>, None, "Public", V1, TRUE) :
        n \in {"compare", "copy", "equal", "is_equal", "free", "destroy", "ref",
               "ref_", "unref", "hash", "Copy", "reference"}}
    \cup {Func(n, "", <<Instance>>, Ret("gboolean", FALSE, "None"), "Comment", None, TRUE) :
            n \in {"compare", "copy", "equal", "is_equal", "free", "destroy", "ref",
                   "ref_", "unref", "hash", "Copy", "reference"}}
    \cup {Func(n, "", <<Instance>>, StrRet, "Public", V2, TRUE) :
            n \in {"equal", "hash", "get_name"}}

\* Functions of the stringify runs.
StrFuncs ==
    {Func(n, "", <<Instance>>, Ret("utf8", nl, t), "Public", ver, g) :
        n \in {"to_string", "name"}, nl \in BOOLEAN, t \in {"None", "Full"},
        ver \in {None, V1}, g \in BOOLEAN}
    \cup {Func("to_string", "", ps, r, "Public", V2, TRUE) :
            ps \in {<<>>, <<Plain>>, <<Instance, Plain>>},
            r \in {Ret("utf8", TRUE, "None")}}
    \cup {Func("to_string", "", <<Instance>>, r, "Public", V2, TRUE) :
            r \in {None, Ret("gint", TRUE, "None")}}
    \cup {Func(n, "", <<Instance>>, Ret("utf8", FALSE, "Container"), "Hidden", V2, TRUE) :
            n \in {"to_str", "get_name", "nick", "hash"}}

\* Functions of the full analysis; their C symbols may coincide.
MainFuncs ==
    {Func("copy", g, <<Instance>>, None, v, V1, TRUE) :
        g \in {"g_t_a"}, v \in {"Public", "Comment"}}
    \cup {Func("destroy", g, <<Instance>>, None, v, V1, TRUE) :
            g \in {"g_t_b"}, v \in {"Public", "Comment"}}
    \cup {Func("copy", "g_t_b", <<Instance>>, None, "Public", None, TRUE),
          Func("hash", "g_t_b", <<Instance>>, Ret("guint", FALSE, "None"), "Public", None, TRUE),
          Func("compare", "g_t_c", <<Instance, Plain>>, Ret("gint", FALSE, "None"), "Public", V2, TRUE),
          Func("name", "g_t_a", <<Instance>>, StrRet, "Public", V2, TRUE),
          Func("name", "g_t_c", <<Instance>>, StrRet, "Hidden", None, TRUE),
          Func("nick", "g_t_c", <<Instance>>, StrRet, "Public", V2, TRUE)}

InitCommon ==
    /\ specials = InfosDefault
    /\ imports = EmptyBag
    /\ analyses = 0
    /\ parent_type \in ParentTypes
    /\ obj \in Policies
    /\ orig = functions
    /\ pre = [functions |-> functions, specials |-> specials, imports |-> imports]
    /\ last = [op |-> "init", type_ |-> None]

\* No call of make_single_version_file is part of the analysis runs.
InitAnalysis ==
    /\ InitCommon
    /\ version_file = [configured |-> None, target_path |-> <<>>, result |-> None]

Init ==
    /\ functions \in SeqsUpTo(MainFuncs, MaxLen)
    /\ InitAnalysis

InitVocabulary ==
    /\ functions \in {Symbols(fs) : fs \in SeqsUpTo(VocFuncs, MaxVocLen)}
    /\ InitAnalysis

InitNames ==
    /\ functions \in {Symbols(fs) : fs \in SeqsUpTo(NameFuncs, MaxNameLen)}
    /\ InitAnalysis

InitStringify ==
    /\ functions \in {Symbols(fs) : fs \in SeqsUpTo(StrFuncs, MaxStrLen)}
    /\ InitAnalysis

\* The arguments of one call of make_single_version_file, not yet made.
InitVersionFile ==
    /\ functions = <<>>
    /\ parent_type = "Record"
    /\ obj = [trust_return_value_nullability |-> FALSE]
    /\ InitCommon
    /\ version_file \in [configured : Configured, target_path : Targets, result : {None}]

----------------------------------------------------------------------------
(* Calls *)

Snapshot == [functions |-> functions, specials |-> specials, imports |-> imports]

\* let specials = extract(&mut functions, parent_type, obj);
Extract ==
    LET r == extract(functions, parent_type, obj)
    IN /\ functions' = r.functions
       /\ specials' = r.specials
       /\ pre' = Snapshot
       /\ last' = [op |-> "extract", type_ |-> None]
       /\ UNCHANGED <<imports, parent_type, obj, analyses, version_file, orig>>

\* unhide(&mut functions, &specials, type_);
Unhide ==
    \E type_ \in Types :
        /\ functions' = unhide(functions, specials, type_)
        /\ pre' = Snapshot
        /\ last' = [op |-> "unhide", type_ |-> Some(type_)]
        /\ UNCHANGED <<specials, imports, parent_type, obj, analyses, version_file, orig>>

\* analyze_imports(&specials, &mut imports);
AnalyzeImports ==
    /\ analyses < MaxAnalyses
    /\ imports' = analyze_imports(specials, imports)
    /\ analyses' = analyses + 1
    /\ pre' = Snapshot
    /\ last' = [op |-> "analyze_imports", type_ |-> None]
    /\ UNCHANGED <<functions, specials, parent_type, obj, version_file, orig>>

\* let file = make_single_version_file(configured, &target_path);
MakeSingleVersionFile ==
    /\ version_file.result = None
    /\ version_file' =
          [version_file EXCEPT
             !.result = Some(make_single_version_file(version_file.configured,
                                                      version_file.target_path))]
    /\ pre' = Snapshot
    /\ last' = [op |-> "make_single_version_file", type_ |-> None]
    /\ UNCHANGED <<functions, specials, imports, parent_type, obj, analyses, orig>>

Next == Extract \/ Unhide \/ AnalyzeImports

NextVersionFile == MakeSingleVersionFile

NextExtract == Extract

Spec == Init /\ [][Next]_vars

SpecVocabulary == InitVocabulary /\ [][NextExtract]_vars

SpecNames == InitNames /\ [][NextExtract]_vars

SpecStringify == InitStringify /\ [][NextExtract]_vars

SpecVersionFile == InitVersionFile /\ [][NextVersionFile]_vars

----------------------------------------------------------------------------
(* Vocabulary of the properties *)

AfterExtract == last.op = "extract"

Positions == 1..Len(pre.functions)

\* The function at position i as it was handed to the last call.
In(i) == pre.functions[i]

\* The same function after the call.
Out(i) == functions[i]

\* The detector's verdict, stated from the function as handed over.
Accepted(f) ==
    /\ StringShaped(f)
    /\ \/ ~f.ret[1].nullable
       \/ /\ f.name = "to_string"
          /\ ~obj.trust_return_value_nullability
          /\ parent_type \notin {"Enumeration", "Bitfield"}

\* Positions of the functions named n that the detector rejects: the ones the
\* vocabulary branch meets.
Named(n) == {i \in Positions : In(i).name = n /\ ~Accepted(In(i))}

Latest(S) == CHOOSE i \in S : \A j \in S : j <= i

Earliest(S) == CHOOSE i \in S : \A j \in S : i <= j

\* The registry entry e is derived from function f.
SourcedFrom(e, f) == e.glib_name = f.glib_name /\ e.version = f.version

HasEntry(type_, f) ==
    type_ \in DOMAIN specials.traits /\ SourcedFrom(specials.traits[type_], f)

\* What update_func leaves in place of visibility v for a kind whose policy is p.
Policy(v, p) == IF v = "Comment" THEN "Comment" ELSE p

----------------------------------------------------------------------------
(* C1: Fallback Destroy.  When the vocabulary branch meets a "copy", no      *)
(* "free" and a "destroy", the registry's Copy entry is derived from the    *)
(* last such "copy", its Free entry from the last such "destroy", and both  *)
(* functions are Hidden unless they were Suppressed; in either order.       *)
FallbackDestroy ==
    AfterExtract =>
        LET c == Named("copy")
            f == Named("free")
            d == Named("destroy")
        IN (c # {} /\ f = {} /\ d # {}) =>
              /\ HasEntry("Copy", In(Latest(c)))
              /\ HasEntry("Free", In(Latest(d)))
              /\ \A i \in {Latest(c), Latest(d)} :
                    Out(i).visibility = Policy(In(i).visibility, "Hidden")

\* Two "destroy" before the last "copy", the later "destroy" promoted.
FallbackDestroyWitness ==
    /\ AfterExtract
    /\ Named("free") = {}
    /\ Cardinality(Named("destroy")) >= 2
    /\ Named("copy") # {}
    /\ Latest(Named("destroy")) < Latest(Named("copy"))
    /\ In(Latest(Named("destroy"))).visibility = "Public"
    /\ Out(Latest(Named("destroy"))).visibility = "Hidden"
    /\ HasEntry("Free", In(Latest(Named("destroy"))))

----------------------------------------------------------------------------
\* Every function named "destroy", whatever the detector says of it.
AllDestroy == {i \in Positions : In(i).name = "destroy"}

FallbackCase == Named("copy") # {} /\ Named("free") = {}

\* The parts of C2 that do not depend on what "registry entry" covers.
DestroyRule(sources) ==
    /\ ("Free" \in DOMAIN specials.traits
          /\ \E i \in AllDestroy :
                specials.traits["Free"].glib_name = In(i).glib_name)
       => FallbackCase
    /\ ~FallbackCase =>
          \A i \in AllDestroy :
              /\ Out(i).visibility = In(i).visibility
              /\ In(i).glib_name \notin sources
    /\ Named("free") # {} => HasEntry("Free", In(Latest(Named("free"))))

TraitSources == {specials.traits[k].glib_name : k \in DOMAIN specials.traits}

(* C2 as stated: Destroy from "destroy" is a fallback only; in every other  *)
(* case each function named "destroy" keeps its visibility and is the       *)
(* source of no registry entry, traits or functions.                        *)
DestroyOnlyFallbackOriginal ==
    AfterExtract => DestroyRule(TraitSources \cup DOMAIN specials.functions)

(* C2 amended: Destroy from "destroy" is a fallback only; in every other    *)
(* case each function named "destroy" keeps its visibility and is the       *)
(* source of no traits entry; a classified "free" gives the Free entry.     *)
DestroyOnlyFallback ==
    AfterExtract => DestroyRule(TraitSources)

\* "destroy", "copy", "free" in this order: the "free" wins, the "destroy" is
\* left alone.
DestroyOnlyFallbackWitness ==
    /\ AfterExtract
    /\ Named("copy") # {}
    /\ Named("free") # {}
    /\ Named("destroy") # {}
    /\ Latest(Named("destroy")) < Earliest(Named("copy"))
    /\ Latest(Named("copy")) < Earliest(Named("free"))
    /\ HasEntry("Free", In(Latest(Named("free"))))
    /\ In(Latest(Named("destroy"))).visibility = "Public"
    /\ Out(Latest(Named("destroy"))).visibility = "Public"

----------------------------------------------------------------------------
\* Positions the vocabulary branch meets whose name parses to type_.
Parsing(type_) ==
    {i \in Positions : ~Accepted(In(i)) /\ from_str(In(i).name) = Some(type_)}

\* The same without the functions named "destroy", which are deferred.
Classified(type_) == {i \in Parsing(type_) : In(i).name # "destroy"}

(* C3 as stated: when two functions parse to the same kind, the entry of    *)
(* that kind is derived from the later one.                                 *)
OverwriteOriginal ==
    AfterExtract =>
        \A t \in Types :
            Cardinality(Parsing(t)) >= 2 => HasEntry(t, In(Latest(Parsing(t))))

(* C3 amended: when two functions that are not named "destroy" are          *)
(* classified under the same kind, the entry of that kind is derived from   *)
(* the later one; a "destroy" never replaces a classified "free".           *)
Overwrite ==
    AfterExtract =>
        \A t \in Types :
            Cardinality(Classified(t)) >= 2 =>
                HasEntry(t, In(Latest(Classified(t))))

\* "equal" then "is_equal": the Equal entry is the second one's.
OverwriteWitness ==
    /\ AfterExtract
    /\ \E i, j \in Classified("Equal") :
          /\ i < j
          /\ In(i).name = "equal"
          /\ In(j).name = "is_equal"
          /\ In(i).version # In(j).version
          /\ HasEntry("Equal", In(j))

----------------------------------------------------------------------------
(* C4: a function that is Suppressed when the list is handed over is still  *)
(* Suppressed after any sequence of extract and unhide calls.               *)
SuppressedStays ==
    \A i \in 1..Len(orig) :
        orig[i].visibility = "Comment" => functions[i].visibility = "Comment"

\* A Suppressed "destroy" promoted by the fallback, then unhide(Free) on it.
SuppressedStaysWitness ==
    /\ last = [op |-> "unhide", type_ |-> Some("Free")]
    /\ "Free" \in DOMAIN specials.traits
    /\ \E i \in 1..Len(orig) :
          /\ orig[i].visibility = "Comment"
          /\ orig[i].name = "destroy"
          /\ specials.traits["Free"].glib_name = orig[i].glib_name
          /\ \A j \in 1..Len(orig) : j # i => orig[j].glib_name # orig[i].glib_name

----------------------------------------------------------------------------
Suppressed == {i \in Positions : In(i).visibility = "Comment"}

(* C5 as stated: a Suppressed function is the source of no traits entry and *)
(* sets neither found flag.                                                 *)
SuppressedUnclassifiedOriginal ==
    AfterExtract =>
        LET p == extract_pass(pre.functions, parent_type, obj)
        IN /\ \A i \in Suppressed : In(i).glib_name \notin TraitSources
           /\ p.has_copy => Named("copy") \ Suppressed # {}
           /\ p.has_free => Named("free") \ Suppressed # {}

(* C5 amended: a Suppressed function keeps its visibility but is classified *)
(* like any other.  Under a vocabulary name other than "destroy" the last   *)
(* classified function of a kind gives the entry even when Suppressed, a    *)
(* Suppressed "copy" sets the Clone-found flag and enables the Destroy      *)
(* fallback, a Suppressed "free" sets the Destroy-found flag and blocks it. *)
(* A Suppressed "destroy" is deferred like any other "destroy": it sets no  *)
(* flag, the last rejected "destroy" is the deferred candidate, and it is   *)
(* the source of a traits entry, the Free entry, exactly when it is that    *)
(* candidate, some "copy" was classified and no "free" was.                 *)
SuppressedClassified ==
    AfterExtract =>
        LET p == extract_pass(pre.functions, parent_type, obj)
        IN \A i \in Suppressed :
              /\ Out(i).visibility = "Comment"
              /\ \A t \in Types :
                    (i \in Classified(t) /\ i = Latest(Classified(t)))
                        => HasEntry(t, In(i))
              /\ i \in Named("copy") =>
                    /\ p.has_copy
                    /\ (Named("free") = {} /\ Named("destroy") # {})
                          => HasEntry("Free", In(Latest(Named("destroy"))))
              /\ i \in Named("free") =>
                    /\ p.has_free
                    /\ HasEntry("Free", In(Latest(Named("free"))))
              /\ i \in Named("destroy") =>
                    /\ p.has_free <=> Named("free") # {}
                    /\ p.has_copy <=> Named("copy") # {}
                    /\ i = Latest(Named("destroy")) =>
                          p.destroy = Some([glib_name |-> In(i).glib_name, pos |-> i])
                    /\ In(i).glib_name \in TraitSources <=>
                          /\ i = Latest(Named("destroy"))
                          /\ Named("copy") # {}
                          /\ Named("free") = {}
                    /\ In(i).glib_name \in TraitSources => HasEntry("Free", In(i))

\* The only "copy" is Suppressed and gives the Copy entry; of two Suppressed
\* "destroy" the earlier is the source of no entry and the later, promoted by
\* the fallback, gives the Free entry and stays Suppressed.
SuppressedClassifiedWitness ==
    /\ AfterExtract
    /\ Named("copy") # {}
    /\ Named("copy") \subseteq Suppressed
    /\ Named("free") = {}
    /\ HasEntry("Copy", In(Latest(Named("copy"))))
    /\ \E i, j \in Named("destroy") \cap Suppressed :
          /\ i < j
          /\ In(i).glib_name \notin TraitSources
          /\ HasEntry("Free", In(j))
          /\ Out(j).visibility = "Comment"

----------------------------------------------------------------------------
Trusted == obj.trust_return_value_nullability
              \/ parent_type \in {"Enumeration", "Bitfield"}

\* A "to_string" with the instance as only parameter and a nullable string
\* return: the function C6 and C7 are about.
NullableToString(f) ==
    /\ f.name = "to_string"
    /\ StringShaped(f)
    /\ f.ret[1].nullable

FormatNames == {"to_string", "to_str", "name", "get_name"}

\* Positions after i of accepted functions that end up with a Format name.
LaterFormat(i) ==
    {j \in Positions : j > i /\ Accepted(In(j)) /\ In(j).name \in FormatNames}

(* C6: Trusted nullability.  With an Enumeration or Bitfield context, or    *)
(* with trust-upstream-nullability set, a nullable "to_string" is renamed   *)
(* to "to_str", stays nullable, is rejected by the detector, and gives      *)
(* neither a Display entry nor a StaticStringify entry.                     *)
TrustedNullability ==
    AfterExtract =>
        \A i \in Positions :
            (Trusted /\ NullableToString(In(i))) =>
                /\ ~is_stringify(In(i), parent_type, obj).result
                /\ Out(i).name = "to_str"
                /\ Out(i).ret[1].nullable
                /\ Out(i) = [In(i) EXCEPT !.name = "to_str"]
                /\ In(i).glib_name \notin TraitSources
                /\ In(i).glib_name \notin DOMAIN specials.functions

\* An Enumeration's nullable "to_string" with no-transfer return, eligible for
\* generation, next to a "name" function that did become Display.
TrustedNullabilityWitness ==
    /\ AfterExtract
    /\ parent_type = "Enumeration"
    /\ ~obj.trust_return_value_nullability
    /\ \E i, j \in Positions :
          /\ NullableToString(In(i))
          /\ In(i).ret[1].transfer = "None"
          /\ In(i).need_generate
          /\ Out(i).name = "to_str"
          /\ In(j).name = "name"
          /\ HasEntry("Display", In(j))
          /\ In(j).glib_name \in DOMAIN specials.functions

----------------------------------------------------------------------------
(* C7: Non-enum nullability override.  Outside Enumeration and Bitfield and *)
(* without trust, a nullable "to_string" is renamed to "to_str", made       *)
(* non-nullable, accepted, becomes the Display entry unless a later Format  *)
(* candidate overwrites it, and gets no StaticStringify entry; the nullable *)
(* flag is forced to false in no other situation.                           *)
NullabilityOverride ==
    AfterExtract =>
        /\ Len(functions) = Len(pre.functions)
        /\ \A i \in Positions :
              /\ (~Trusted /\ NullableToString(In(i))) =>
                    /\ is_stringify(In(i), parent_type, obj).result
                    /\ Out(i) = [In(i) EXCEPT !.name = "to_str",
                                              !.ret[1].nullable = FALSE]
                    /\ "Display" \in DOMAIN specials.traits
                    /\ LaterFormat(i) = {} => HasEntry("Display", In(i))
                    /\ In(i).glib_name \notin DOMAIN specials.functions
              /\ (Out(i).ret = None) = (In(i).ret = None)
              /\ (In(i).ret # None /\ Out(i).ret[1].nullable # In(i).ret[1].nullable)
                    => (~Trusted /\ NullableToString(In(i)))

\* A Record's nullable "to_string" with full transfer became the Display entry.
NullabilityOverrideWitness ==
    /\ AfterExtract
    /\ parent_type = "Record"
    /\ ~obj.trust_return_value_nullability
    /\ \E i \in Positions :
          /\ NullableToString(In(i))
          /\ In(i).ret[1].transfer = "Full"
          /\ Out(i).name = "to_str"
          /\ ~Out(i).ret[1].nullable
          /\ HasEntry("Display", In(i))

----------------------------------------------------------------------------
\* The nine names the vocabulary branch registers at once, with their kinds.
ImmediateKind ==
    [compare |-> "Compare", copy |-> "Copy", equal |-> "Equal",
     is_equal |-> "Equal", free |-> "Free", ref |-> "Ref", ref_ |-> "Ref",
     unref |-> "Unref", hash |-> "Hash"]

PolicyTable ==
    [Copy |-> "Hidden", Free |-> "Hidden", Ref |-> "Hidden", Unref |-> "Hidden",
     Hash |-> "Private", Compare |-> "Private", Equal |-> "Private"]

\* What C8 says of the nine names: registered under the kind of the table
\* (the entry being the last such function's) and given the policy's
\* visibility.
NineNames ==
    \A i \in Positions :
        (In(i).name \in DOMAIN ImmediateKind
            /\ In(i).visibility # "Comment" /\ ~Accepted(In(i))) =>
            LET k == ImmediateKind[In(i).name]
            IN /\ from_str(In(i).name) = Some(k)
               /\ k \in DOMAIN specials.traits
               /\ i = Latest(Classified(k)) => HasEntry(k, In(i))
               /\ Out(i).visibility = PolicyTable[k]

(* C8 as stated: the nine names are registered and hidden per the table,    *)
(* and every other name parses to no kind.                                  *)
VocabularyPolicyOriginal ==
    AfterExtract =>
        /\ NineNames
        /\ \A i \in Positions :
              In(i).name \notin DOMAIN ImmediateKind => from_str(In(i).name) = None

(* C8 amended: the nine names are registered and hidden per the table;      *)
(* "destroy" parses to Free as well; every name other than these ten parses *)
(* to no kind.                                                              *)
VocabularyPolicy ==
    AfterExtract =>
        /\ NineNames
        /\ \A i \in Positions :
              /\ In(i).name = "destroy" => from_str(In(i).name) = Some("Free")
              /\ In(i).name \notin (DOMAIN ImmediateKind) \cup {"destroy"}
                    => from_str(In(i).name) = None

\* "is_equal" made Private and registered, beside the case variant "Copy"
\* left alone.
VocabularyPolicyWitness ==
    /\ AfterExtract
    /\ \E i, j \in Positions :
          /\ In(i).name = "is_equal"
          /\ In(i).visibility = "Public"
          /\ Out(i).visibility = "Private"
          /\ HasEntry("Equal", In(i))
          /\ In(j).name = "Copy"
          /\ Out(j) = In(j)
          /\ "Copy" \notin DOMAIN specials.traits

----------------------------------------------------------------------------
\* The functions unhide may pick for the entry of type_.
Promotable(type_) ==
    IF type_ \in DOMAIN pre.specials.traits
    THEN {i \in Positions :
            /\ In(i).glib_name = pre.specials.traits[type_].glib_name
            /\ In(i).visibility # "Comment"}
    ELSE {}

(* C9: Visibility promotion.  unhide makes Public the first non-Suppressed  *)
(* function whose glib_name is the entry's and changes nothing else; with   *)
(* no entry or no such function it changes nothing; a second unhide of the  *)
(* same kind is a no-op.                                                    *)
Promotion ==
    last.op = "unhide" =>
        LET t == last.type_[1]
            c == Promotable(t)
        IN /\ specials = pre.specials
           /\ imports = pre.imports
           /\ Len(functions) = Len(pre.functions)
           /\ \A i \in Positions :
                 Out(i) = IF c # {} /\ i = Earliest(c)
                          THEN [In(i) EXCEPT !.visibility = "Public"]
                          ELSE In(i)
           /\ unhide(functions, specials, t) = functions

\* Two Hidden functions share the Copy entry's glib_name: the first one is
\* made Public, the second one stays Hidden.
PromotionWitness ==
    /\ last = [op |-> "unhide", type_ |-> Some("Copy")]
    /\ \E i, j \in Positions :
          /\ i < j
          /\ {i, j} \subseteq Promotable("Copy")
          /\ In(i).visibility = "Hidden"
          /\ Out(i).visibility = "Public"
          /\ Out(j).visibility = "Hidden"

----------------------------------------------------------------------------
\* The declaration analyze_imports owes to a traits entry of each kind.
DeclarationOf == [Compare |-> "std::cmp", Display |-> "std::fmt", Hash |-> "std::hash"]

\* How many entries of the registry call for declaration d.
Owed(d) ==
    Cardinality({k \in (DOMAIN specials.traits) \cap (DOMAIN DeclarationOf) :
                    /\ DeclarationOf[k] = d.name
                    /\ specials.traits[k].version = d.version})
    + Cardinality({g \in DOMAIN specials.functions :
                    /\ d.name = "std::ffi::CStr"
                    /\ specials.functions[g].type_ = "StaticStringify"
                    /\ specials.functions[g].version = d.version})

(* C10: Import gating.  analyze_imports adds one declaration per Compare,   *)
(* Display or Hash entry and one std::ffi::CStr per StaticStringify entry,  *)
(* each with that entry's version, adds nothing else, and leaves the        *)
(* registry as it was.                                                      *)
ImportGating ==
    last.op = "analyze_imports" =>
        /\ specials = pre.specials
        /\ functions = pre.functions
        /\ \A d \in BagToSet(imports) \cup BagToSet(pre.imports)
                    \cup [name : {"std::cmp", "std::fmt", "std::hash", "std::ffi::CStr"},
                          version : {None, V1, V2}] :
              CopiesIn(d, imports) = CopiesIn(d, pre.imports) + Owed(d)

\* Two StaticStringify entries of one version and a Display entry.
ImportGatingWitness ==
    /\ last.op = "analyze_imports"
    /\ CopiesIn([name |-> "std::ffi::CStr", version |-> V2], imports) = 2
    /\ CopiesIn([name |-> "std::fmt", version |-> V2], imports) = 1
    /\ Cardinality(DOMAIN specials.functions) = 2
    /\ "Display" \in DOMAIN specials.traits

----------------------------------------------------------------------------
\* The ten names Type::from_str knows.
Vocabulary == (DOMAIN ImmediateKind) \cup {"destroy"}

(* C11: Pass-through.  A function that the detector rejects and whose name, *)
(* after a possible rename, is not in the vocabulary keeps its visibility   *)
(* and is the source of no traits and no functions entry; extract never     *)
(* adds, removes or reorders functions.                                     *)
PassThrough ==
    AfterExtract =>
        /\ Len(functions) = Len(pre.functions)
        /\ \A i \in Positions :
              /\ Out(i).glib_name = In(i).glib_name
              /\ (~Accepted(In(i)) /\ Out(i).name \notin Vocabulary) =>
                    /\ Out(i).visibility = In(i).visibility
                    /\ In(i).glib_name \notin TraitSources
                    /\ In(i).glib_name \notin DOMAIN specials.functions

\* A rejected "to_string", renamed and left alone, before an accepted "name"
\* that became the Display entry.
PassThroughWitness ==
    /\ AfterExtract
    /\ \E i, j \in Positions :
          /\ i < j
          /\ In(i).name = "to_string"
          /\ StringShaped(In(i))
          /\ ~Accepted(In(i))
          /\ Out(i).name = "to_str"
          /\ In(j).name = "name"
          /\ HasEntry("Display", In(j))

----------------------------------------------------------------------------
\* The functions extract owes a StaticStringify entry.
StaticRef ==
    {i \in Positions :
        /\ Accepted(In(i))
        /\ In(i).ret[1].transfer = "None"
        /\ parent_type \in {"Enumeration", "Bitfield"}
        /\ In(i).need_generate}

(* C12: StaticStringify registration.  registry.functions has an entry for  *)
(* a glib_name, with the function's version, exactly when the detector      *)
(* accepted the function, its return transfer is None, the parent is an     *)
(* Enumeration or Bitfield and the function is to be generated.             *)
StaticStringifyRegistration ==
    AfterExtract =>
        /\ DOMAIN specials.functions = {In(i).glib_name : i \in StaticRef}
        /\ \A i \in StaticRef :
              specials.functions[In(i).glib_name] =
                  [type_ |-> "StaticStringify", version |-> In(i).version]
        /\ (parent_type \notin {"Enumeration", "Bitfield"})
              => specials.functions = EmptyMap

\* One accepted function registered, another one not generated and left out.
StaticStringifyRegistrationWitness ==
    /\ AfterExtract
    /\ \E i, j \in Positions :
          /\ i \in StaticRef
          /\ In(i).glib_name \in DOMAIN specials.functions
          /\ Accepted(In(j))
          /\ In(j).ret[1].transfer = "None"
          /\ ~In(j).need_generate
          /\ In(j).glib_name \notin DOMAIN specials.functions

----------------------------------------------------------------------------
\* A "to_string" with the instance as only parameter and a string return.
ShapedToString(f) == f.name = "to_string" /\ StringShaped(f)

(* C13: Rename before lookup.  A string-shaped "to_string" is named         *)
(* "to_str" after extract, accepted or not; the Display match and the       *)
(* vocabulary parse read "to_str" for it, never "to_string"; no glib_name   *)
(* changes, no other name changes, and a second extract renames nothing.    *)
RenameBeforeLookup ==
    AfterExtract =>
        LET p == extract_pass(pre.functions, parent_type, obj)
            again == extract(functions, parent_type, obj)
        IN /\ \A i \in Positions :
                 /\ Out(i).glib_name = In(i).glib_name
                 /\ Out(i).name = IF ShapedToString(In(i)) THEN "to_str" ELSE In(i).name
                 /\ again.functions[i].name = Out(i).name
                 /\ \E k \in 1..Len(p.reads) : p.reads[k].pos = i
           /\ \A k \in 1..Len(p.reads) :
                 /\ p.reads[k].name = Out(p.reads[k].pos).name
                 /\ p.reads[k].lookup =
                        IF Accepted(In(p.reads[k].pos)) THEN "matches" ELSE "parse"
                 /\ ShapedToString(In(p.reads[k].pos)) => p.reads[k].name # "to_string"

\* Two "to_string" of an Enumeration, one accepted and one rejected for its
\* nullable return, both renamed.
RenameBeforeLookupWitness ==
    /\ AfterExtract
    /\ parent_type = "Enumeration"
    /\ \E i, j \in Positions :
          /\ ShapedToString(In(i))
          /\ ShapedToString(In(j))
          /\ Accepted(In(i))
          /\ ~Accepted(In(j))
          /\ Out(i).name = "to_str"
          /\ Out(j).name = "to_str"
          /\ HasEntry("Display", In(i))

----------------------------------------------------------------------------
\* The accepted functions whose name after the rename is a Format candidate.
FormatCandidates ==
    {i \in Positions : Accepted(In(i)) /\ Out(i).name \in FormatNames}

(* C14: Format precedence is last-write-wins.  The Display entry exists     *)
(* exactly when some accepted function has a name among to_string, to_str,  *)
(* name, get_name, and then it names the last such function of the list     *)
(* with that function's version; an accepted function with another name is  *)
(* never the Display source.                                                *)
FormatLastWins ==
    AfterExtract =>
        /\ ("Display" \in DOMAIN specials.traits) <=> (FormatCandidates # {})
        /\ FormatCandidates # {} =>
              specials.traits["Display"] =
                  [glib_name |-> In(Latest(FormatCandidates)).glib_name,
                   version |-> In(Latest(FormatCandidates)).version]
        /\ \A i \in Positions :
              (Accepted(In(i)) /\ Out(i).name \notin FormatNames) =>
                  ~HasEntry("Display", In(i))

\* Two candidates of different names and versions, the first a renamed
\* "to_string": the entry names the second.
FormatLastWinsWitness ==
    /\ AfterExtract
    /\ \E i, j \in Positions :
          /\ i < j
          /\ {i, j} \subseteq FormatCandidates
          /\ In(i).name = "to_string"
          /\ Out(j).name = "name"
          /\ In(i).version # In(j).version
          /\ specials.traits["Display"] =
                 [glib_name |-> In(j).glib_name, version |-> In(j).version]

----------------------------------------------------------------------------
(* C15: an accepted function bypasses the vocabulary branch.  Extract       *)
(* leaves its visibility unchanged, it is the source of no traits entry     *)
(* other than Display, and then only under a Format name; the Clone-found   *)
(* flag, the Destroy-found flag and the deferred destroy candidate come     *)
(* from rejected functions only, so without a rejected "copy" there is no   *)
(* Copy entry and no Free entry from a "destroy".                           *)
AcceptedBypass ==
    AfterExtract =>
        LET p == extract_pass(pre.functions, parent_type, obj)
        IN /\ \A i \in Positions :
                 Accepted(In(i)) =>
                    /\ Out(i).visibility = In(i).visibility
                    /\ \A t \in DOMAIN specials.traits :
                          specials.traits[t].glib_name = In(i).glib_name =>
                             t = "Display" /\ Out(i).name \in FormatNames
           /\ p.has_copy <=> Named("copy") # {}
           /\ p.has_free <=> Named("free") # {}
           /\ p.destroy # None <=> Named("destroy") # {}
           /\ p.destroy # None => p.destroy[1].pos \in Named("destroy")
           /\ Named("copy") = {} => "Copy" \notin DOMAIN specials.traits
           /\ (Named("free") = {} /\ (Named("copy") = {} \/ Named("destroy") = {}))
                 => "Free" \notin DOMAIN specials.traits

\* A stringify-shaped "copy" followed by an ordinary "destroy": the "copy"
\* stays Public and the registry has no Copy and no Free entry.
AcceptedBypassWitness ==
    /\ AfterExtract
    /\ Len(pre.functions) = 2
    /\ In(1).name = "copy"
    /\ Accepted(In(1))
    /\ In(2).name = "destroy"
    /\ ~Accepted(In(2))
    /\ In(2).visibility = "Public"
    /\ Out(1).visibility = "Public"
    /\ Out(2).visibility = "Public"
    /\ specials.traits = EmptyMap

----------------------------------------------------------------------------
\* The last call was extract on a list an earlier extract had mutated.
SecondExtract == AfterExtract /\ pre.functions # orig

(* C16: extract is idempotent.  A second extract on the list the first one  *)
(* mutated, with the same type context and policy, returns a registry equal *)
(* to the first one and changes no function: no name, no nullable flag and  *)
(* no visibility.                                                           *)
ExtractIdempotent ==
    /\ AfterExtract =>
          LET again == extract(functions, parent_type, obj)
          IN /\ again.specials = specials
             /\ again.functions = functions
    /\ SecondExtract =>
          /\ specials = pre.specials
          /\ \A i \in Positions :
                /\ Out(i).name = In(i).name
                /\ Out(i).ret = In(i).ret
                /\ Out(i).visibility = In(i).visibility

\* A second extract over a list in which the first one renamed a "to_string"
\* and forced its nullable flag to false: the Display entry is the same.
ExtractIdempotentWitness ==
    /\ SecondExtract
    /\ specials = pre.specials
    /\ functions = pre.functions
    /\ \E i \in Positions :
          /\ orig[i].name = "to_string"
          /\ orig[i].ret # None
          /\ orig[i].ret[1].nullable
          /\ Out(i).name = "to_str"
          /\ ~Out(i).ret[1].nullable
          /\ HasEntry("Display", Out(i))

----------------------------------------------------------------------------
\* make_single_version_file has been called.
Called == version_file.result # None

\* PathBuf's ==, which compares components.
PathEq(a, b) == components(a) = components(b)

\* The path rel under the directory dir, as text.
Under(dir, rel) == dir \o <<"/">> \o rel

\* The text after the last separator of a path, trailing separators dropped.
RECURSIVE LastSegment(_)
LastSegment(path) ==
    IF path = <<>>
    THEN <<>>
    ELSE IF path[Len(path)] = "/"
    THEN LastSegment(SubSeq(path, 1, Len(path) - 1))
    ELSE Segments(path)[Len(Segments(path))]

\* A name with a dot after its first character; "." and ".." have none.
HasFileExtension(name) ==
    /\ name \notin {CurDir, ParentDir}
    /\ \E k \in 2..Len(name) : name[k] = "."

\* The directory or file the option names: src/auto under the target when
\* the option is absent or empty, the configured path under the target
\* otherwise.
OptionPath(configured, target_path) ==
    IF configured = None \/ configured = Some(<<>>)
    THEN Under(Under(target_path, src), auto)
    ELSE Under(target_path, configured[1])

(* C17: make_single_version_file(configured, target_path) returns           *)
(* target_path joined with the configured relative path, src/auto when      *)
(* configured is absent or empty; if the last component of that path has a  *)
(* file extension the path is returned as is, otherwise versions.txt is     *)
(* appended; so a directory ("a" here, "src" in the claim) gives            *)
(* <target>/a/versions.txt, a file ("a/a.a") gives <target>/a/a.a, and "."  *)
(* gives <target>/versions.txt.  Paths are compared as PathBuf values.      *)
VersionFileAsStated ==
    Called =>
        LET c == version_file.configured
            t == version_file.target_path
            result == version_file.result[1]
            dir == OptionPath(c, t)
        IN (c = None \/ ~is_absolute(c[1])) =>
              /\ PathEq(result, IF HasFileExtension(LastSegment(dir))
                                THEN dir
                                ELSE Under(dir, versions_txt))
              /\ c = Some(<<"a">>) =>
                    PathEq(result, Under(Under(t, <<"a">>), versions_txt))
              /\ c = Some(<<"a", "/", "a", ".", "a">>) =>
                    PathEq(result, Under(t, <<"a", "/", "a", ".", "a">>))
              /\ c = Some(CurDir) => PathEq(result, Under(t, versions_txt))

\* The inputs on which the code leaves the statement: the configured path
\* ends in a "." segment and the component before it, of the configured path
\* or of the target, has a file extension.
EndsInCurDir ==
    LET c == version_file.configured
        dir == OptionPath(c, version_file.target_path)
    IN /\ c # None
       /\ ~is_absolute(c[1])
       /\ LastSegment(dir) = CurDir
       /\ extension(dir) # None

\* Where the code and the statement of C17 part: exactly on these inputs, and
\* there the code returns the directory itself.
VersionFileDivergence ==
    Called =>
        /\ VersionFileAsStated <=> ~EndsInCurDir
        /\ EndsInCurDir =>
              PathEq(version_file.result[1],
                     OptionPath(version_file.configured, version_file.target_path))

\* The test of config.rs, lines 418-445, with "/t" for "/tmp/glib", "a" for
\* "src", "a/a.a" for "src/vers.txt" and "./a.a" for "./_vers.dat".
VersionFileTest ==
    LET t == <<"/", "t">>
    IN /\ PathEq(make_single_version_file(None, t),
                 <<"/", "t", "/">> \o src \o <<"/">> \o auto \o <<"/">> \o versions_txt)
       /\ make_single_version_file(Some(<<>>), t) = make_single_version_file(None, t)
       /\ PathEq(make_single_version_file(Some(<<"a">>), t),
                 <<"/", "t", "/", "a", "/">> \o versions_txt)
       /\ PathEq(make_single_version_file(Some(<<"a", "/", "a", ".", "a">>), t),
                 <<"/", "t", "/", "a", "/", "a", ".", "a">>)
       /\ PathEq(make_single_version_file(Some(CurDir), t),
                 <<"/", "t", "/">> \o versions_txt)
       /\ PathEq(make_single_version_file(Some(<<".", "/", "a", ".", "a">>), t),
                 <<"/", "t", "/", "a", ".", "a">>)

\* "." configured for the target "/t.d": the result is "/t.d/.", the target
\* directory itself, and no versions.txt is named.
VersionFileDirectoryReturned ==
    /\ Called
    /\ version_file.configured = Some(CurDir)
    /\ version_file.target_path = <<"/", "t", ".", "d">>
    /\ version_file.result = Some(<<"/", "t", ".", "d", "/", ".">>)
    /\ PathEq(version_file.result[1], version_file.target_path)
    /\ ~PathEq(version_file.result[1], Under(version_file.target_path, versions_txt))

====
